---- MODULE Spec2Model ----
(***************************************************************************)
(* Verification model of the dataflow synchronization core:                *)
(*   - the two-slot port channel (PortFiniteStateMachine with the          *)
(*     AsyncStateMachine and UnifiedAsyncStateMachine policies of          *)
(*     ports/test/unit_fsm.cc) driven by the producer / consumer programs  *)
(*     of the unit tests;                                                  *)
(*   - RandomizedQueue (utility/randomized_queue.h).                       *)
(* Every event() of the channel runs under the channel mutex, so an event  *)
(* is one atomic step up to the point where it returns or starts a         *)
(* condition-variable wait; the wake-up is a second atomic step.  The      *)
(* unlocked accesses of the tests (source_item, sink_item, state())        *)
(* are steps of their own.                                                 *)
(***************************************************************************)
EXTENDS Integers, Sequences, FiniteSets, Bags, TLC

\* ------------------------------------------------------------------------
\* Bounds
\* ------------------------------------------------------------------------
\* number of rounds each node runs (the tests use 37 and 3379)
Rounds == 2
\* number of threads that share the queue
NumQThreads == 3
\* number of push / try_push calls that are accepted in one run
MaxPushes == 2
\* items are 1..MaxItem
MaxItem == 2

\* ------------------------------------------------------------------------
\* Program constants of the n-integer tests
\* ------------------------------------------------------------------------
\* AsyncStateMachine{0, 0}: initial content of both slots
SlotInit == 0
\* std::iota(input.begin(), input.end(), 19)
InputBase == 19
\* a.source_item = 400000000 after push
SourceMark == 400000000
\* a.sink_item = 1000000000 after drain
SinkMark == 1000000000

Threads == {"source", "sink"}
Policies == {"manual", "async", "unified"}
Tests == {"manual", "rounds", "integers"}
PortStates == {"empty_empty", "empty_full", "full_empty", "full_full"}

VARIABLES
  policy,        \* which action policy the channel is built with
  test,          \* which pair of node programs runs
  rounds,        \* size_t rounds of the running test
  state_,        \* PortFiniteStateMachine::state_
  next_state_,   \* PortFiniteStateMachine::next_state_
  source_item,   \* policy member source_item
  sink_item,     \* policy member sink_item
  source_swaps,  \* policy member source_swaps
  sink_swaps,    \* policy member sink_swaps
  pc,            \* position of each node thread
  n,             \* remaining rounds of each node (size_t n = rounds)
  i,             \* input iterator (index of the next input)
  output,        \* values stored through the output iterator j
  error,         \* an event was applied in a state that does not allow it
  applied,       \* number of events the manual sequence has applied
  items_,        \* RandomizedQueue::items_
  draining_,     \* RandomizedQueue::draining_
  shutdown_,     \* RandomizedQueue::shutdown_
  mutex_,        \* RandomizedQueue::mutex_: the thread that holds it, or NoThread
  qpc,           \* position of each thread that uses the queue
  last,          \* operation and return value of the last completed call
  pushed,        \* bag of the items whose push / try_push returned true
  returned,      \* bag of the items returned by pop / try_pop
  drained,       \* items queued and items returned when drain() first ran
  drain_waiters, \* threads that were waiting when drain() ran and have not returned
  rhs_items_,    \* items_ of a second queue, the argument rhs of swap_data
  swap_tmp,      \* the temporary of std::swap inside swap_data
  swap_seen      \* items_ of both queues when std::swap began

chanvars == <<policy, test, rounds, state_, next_state_, source_item, sink_item,
              source_swaps, sink_swaps, pc, n, i, output, error, applied>>

swapvars == <<rhs_items_, swap_tmp, swap_seen>>

queuevars == <<items_, draining_, shutdown_, mutex_, qpc, last, pushed, returned, drained,
               drain_waiters, rhs_items_, swap_tmp, swap_seen>>

vars == <<policy, test, rounds, state_, next_state_, source_item, sink_item,
          source_swaps, sink_swaps, pc, n, i, output, error, applied,
          items_, draining_, shutdown_, mutex_, qpc, last, pushed, returned, drained,
          drain_waiters, rhs_items_, swap_tmp, swap_seen>>

\* ------------------------------------------------------------------------
\* State helpers (is_src_empty, is_src_full, is_snk_empty, is_snk_full)
\* ------------------------------------------------------------------------
is_src_empty(st) == st \in {"empty_full", "empty_empty"}
is_src_full(st) == st \in {"full_full", "full_empty"}
is_snk_empty(st) == st \in {"full_empty", "empty_empty"}
is_snk_full(st) == st \in {"full_full", "empty_full"}

\* input[k] of the n-integer tests, k = 1..Rounds
Input(k) == InputBase + (k - 1)

\* condition variable a thread of the given role waits on
source_cv == IF policy = "async" THEN "source_cv_" ELSE "cv_"
sink_cv == IF policy = "async" THEN "sink_cv_" ELSE "cv_"
CvOf(t) == IF t = "source" THEN source_cv ELSE sink_cv

\* threads blocked in wait(lock) on condition variable c
Waiters(c) == {t \in Threads : pc[t] \in {"push_wait", "pull_wait"} /\ CvOf(t) = c}

Woken(p) == IF p = "push_wait" THEN "push_woken" ELSE "pull_woken"

\* notify_one on condition variable c issued by thread t, which then moves
\* to position p: the possible resulting pc functions
notify_one(c, t, p) ==
  IF Waiters(c) = {}
    THEN {[pc EXCEPT ![t] = p]}
    ELSE {[pc EXCEPT ![t] = p, ![w] = Woken(pc[w])] : w \in Waiters(c)}

\* position a thread takes while it is blocked in wait(lock)
WaitPos(t) == IF t = "source" THEN "push_wait" ELSE "pull_wait"

\* ------------------------------------------------------------------------
\* Transition table of the channel (state, event) -> next state; "error"
\* where the event's precondition does not hold
\* ------------------------------------------------------------------------
\* table that has no sink_drain entry for full_full
transition_table_drain_missing(st, ev) ==
  CASE ev = "source_fill" ->
         (CASE st = "empty_empty" -> "full_empty"
            [] st = "empty_full" -> "full_full"
            [] OTHER -> "error")
    [] ev = "sink_drain" ->
         (CASE st = "empty_full" -> "empty_empty"
            [] OTHER -> "error")
    [] ev = "push" ->
         (CASE st = "full_empty" -> "empty_full"
            [] OTHER -> st)
    [] ev = "pull" ->
         (CASE st = "full_empty" -> "empty_full"
            [] OTHER -> st)

\* table whose source_fill entry for empty_full moves the item across
transition_table_fill_crosses(st, ev) ==
  CASE ev = "source_fill" ->
         (CASE st = "empty_empty" -> "full_empty"
            [] st = "empty_full" -> "full_empty"
            [] OTHER -> "error")
    [] ev = "sink_drain" ->
         (CASE st = "empty_full" -> "empty_empty"
            [] st = "full_full" -> "full_empty"
            [] OTHER -> "error")
    [] ev = "push" ->
         (CASE st = "full_empty" -> "empty_full"
            [] OTHER -> st)
    [] ev = "pull" ->
         (CASE st = "full_empty" -> "empty_full"
            [] OTHER -> st)

transition_table(st, ev) ==
  CASE ev = "source_fill" ->
         (CASE st = "empty_empty" -> "full_empty"
            [] st = "empty_full" -> "full_full"
            [] OTHER -> "error")
    [] ev = "sink_drain" ->
         (CASE st = "empty_full" -> "empty_empty"
            [] st = "full_full" -> "full_empty"
            [] OTHER -> "error")
    [] ev = "push" ->
         (CASE st = "full_empty" -> "empty_full"
            [] OTHER -> st)
    [] ev = "pull" ->
         (CASE st = "full_empty" -> "empty_full"
            [] OTHER -> st)

\* ------------------------------------------------------------------------
\* AsyncStateMachine: two condition variables
\* ------------------------------------------------------------------------
\* on_source_swap without FSM::set_state(PortState::empty_full) after the swap
AsyncStateMachine_on_source_swap_no_set_state(t, ret) ==
  IF state_ = "full_empty"
    THEN /\ source_item' = sink_item
         /\ sink_item' = source_item
         /\ pc' \in notify_one("sink_cv_", t, ret)
         /\ state_' = state_
         /\ next_state_' = state_
         /\ source_swaps' = source_swaps + 1
         /\ UNCHANGED sink_swaps
    ELSE /\ pc' \in notify_one("sink_cv_", t, WaitPos(t))
         /\ next_state_' = state_
         /\ UNCHANGED <<state_, source_item, sink_item, source_swaps, sink_swaps>>

\* on_source_swap that swaps whenever the source slot is full
AsyncStateMachine_on_source_swap_any_full(t, ret) ==
  IF state_ \in {"full_empty", "full_full"}
    THEN /\ source_item' = sink_item
         /\ sink_item' = source_item
         /\ pc' \in notify_one("sink_cv_", t, ret)
         /\ state_' = "empty_full"
         /\ next_state_' = "empty_full"
         /\ source_swaps' = source_swaps + 1
         /\ UNCHANGED sink_swaps
    ELSE /\ pc' \in notify_one("sink_cv_", t, WaitPos(t))
         /\ next_state_' = state_
         /\ UNCHANGED <<state_, source_item, sink_item, source_swaps, sink_swaps>>

\* on_source_swap, called under the lock by thread t; ret is the position
\* the thread takes when event() returns
AsyncStateMachine_on_source_swap(t, ret) ==
  IF state_ = "full_empty"
    THEN /\ source_item' = sink_item
         /\ sink_item' = source_item
         /\ pc' \in notify_one("sink_cv_", t, ret)
         /\ state_' = "empty_full"
         /\ next_state_' = "empty_full"
         /\ source_swaps' = source_swaps + 1
         /\ UNCHANGED sink_swaps
    ELSE /\ pc' \in notify_one("sink_cv_", t, WaitPos(t))
         /\ next_state_' = state_
         /\ UNCHANGED <<state_, source_item, sink_item, source_swaps, sink_swaps>>

\* on_sink_swap without FSM::set_state(PortState::empty_full) after the swap
AsyncStateMachine_on_sink_swap_no_set_state(t, ret) ==
  IF state_ = "full_empty"
    THEN /\ source_item' = sink_item
         /\ sink_item' = source_item
         /\ pc' \in notify_one("source_cv_", t, ret)
         /\ state_' = state_
         /\ next_state_' = state_
         /\ sink_swaps' = sink_swaps + 1
         /\ UNCHANGED source_swaps
    ELSE /\ pc' \in notify_one("source_cv_", t, WaitPos(t))
         /\ next_state_' = state_
         /\ UNCHANGED <<state_, source_item, sink_item, source_swaps, sink_swaps>>

AsyncStateMachine_on_sink_swap(t, ret) ==
  IF state_ = "full_empty"
    THEN /\ source_item' = sink_item
         /\ sink_item' = source_item
         /\ pc' \in notify_one("source_cv_", t, ret)
         /\ state_' = "empty_full"
         /\ next_state_' = "empty_full"
         /\ sink_swaps' = sink_swaps + 1
         /\ UNCHANGED source_swaps
    ELSE /\ pc' \in notify_one("source_cv_", t, WaitPos(t))
         /\ next_state_' = state_
         /\ UNCHANGED <<state_, source_item, sink_item, source_swaps, sink_swaps>>

\* notify_sink that notifies nobody
AsyncStateMachine_notify_sink_silent(t, ret) == pc' = [pc EXCEPT ![t] = ret]

AsyncStateMachine_notify_source(t, ret) == pc' \in notify_one("source_cv_", t, ret)

AsyncStateMachine_notify_sink(t, ret) == pc' \in notify_one("sink_cv_", t, ret)

\* ------------------------------------------------------------------------
\* UnifiedAsyncStateMachine: one condition variable, one swap function
\* ------------------------------------------------------------------------
UnifiedAsyncStateMachine_on_source_swap(t, ret) ==
  IF state_ = "full_empty"
    THEN /\ source_item' = sink_item
         /\ sink_item' = source_item
         /\ pc' \in notify_one("cv_", t, ret)
         /\ state_' = "empty_full"
         /\ next_state_' = "empty_full"
         /\ source_swaps' = source_swaps + 1
         /\ UNCHANGED sink_swaps
    ELSE /\ pc' \in notify_one("cv_", t, WaitPos(t))
         /\ next_state_' = state_
         /\ UNCHANGED <<state_, source_item, sink_item, source_swaps, sink_swaps>>

UnifiedAsyncStateMachine_on_sink_swap(t, ret) ==
  UnifiedAsyncStateMachine_on_source_swap(t, ret)

UnifiedAsyncStateMachine_do_notify(t, ret) == pc' \in notify_one("cv_", t, ret)

UnifiedAsyncStateMachine_notify_source(t, ret) ==
  UnifiedAsyncStateMachine_do_notify(t, ret)

UnifiedAsyncStateMachine_notify_sink(t, ret) ==
  UnifiedAsyncStateMachine_do_notify(t, ret)

\* static dispatch of the policy hooks
on_source_swap(t, ret) ==
  IF policy = "async" THEN AsyncStateMachine_on_source_swap(t, ret)
                      ELSE UnifiedAsyncStateMachine_on_source_swap(t, ret)

on_sink_swap(t, ret) ==
  IF policy = "async" THEN AsyncStateMachine_on_sink_swap(t, ret)
                      ELSE UnifiedAsyncStateMachine_on_sink_swap(t, ret)

notify_source(t, ret) ==
  IF policy = "async" THEN AsyncStateMachine_notify_source(t, ret)
                      ELSE UnifiedAsyncStateMachine_notify_source(t, ret)

notify_sink(t, ret) ==
  IF policy = "async" THEN AsyncStateMachine_notify_sink(t, ret)
                      ELSE UnifiedAsyncStateMachine_notify_sink(t, ret)

\* ------------------------------------------------------------------------
\* PortFiniteStateMachine::event, one operator per event.  An event whose
\* precondition fails is recorded in error and leaves the state alone.
\* ------------------------------------------------------------------------
event_source_fill(t, ret) ==
  IF transition_table(state_, "source_fill") = "error"
    THEN /\ error' = TRUE
         /\ pc' = [pc EXCEPT ![t] = ret]
         /\ UNCHANGED <<state_, next_state_, source_item, sink_item,
                        source_swaps, sink_swaps>>
    ELSE /\ state_' = transition_table(state_, "source_fill")
         /\ next_state_' = state_'
         /\ notify_sink(t, ret)
         /\ UNCHANGED <<error, source_item, sink_item, source_swaps, sink_swaps>>

event_sink_drain(t, ret) ==
  IF transition_table(state_, "sink_drain") = "error"
    THEN /\ error' = TRUE
         /\ pc' = [pc EXCEPT ![t] = ret]
         /\ UNCHANGED <<state_, next_state_, source_item, sink_item,
                        source_swaps, sink_swaps>>
    ELSE /\ state_' = transition_table(state_, "sink_drain")
         /\ next_state_' = state_'
         /\ notify_source(t, ret)
         /\ UNCHANGED <<error, source_item, sink_item, source_swaps, sink_swaps>>

\* push: entered at "push", resumed at "push_woken" after a notification;
\* with a full source slot the policy swaps or waits, and a woken push
\* evaluates the state again; with an empty source slot the handoff has
\* been done by the other side and push returns
event_push(t, ret) ==
  /\ IF is_src_full(state_)
       THEN on_source_swap(t, ret)
       ELSE /\ pc' = [pc EXCEPT ![t] = ret]
            /\ next_state_' = state_
            /\ UNCHANGED <<state_, source_item, sink_item, source_swaps, sink_swaps>>
  /\ UNCHANGED error

\* pull: entered at "pull", resumed at "pull_woken"
event_pull(t, ret) ==
  /\ IF is_snk_empty(state_)
       THEN on_sink_swap(t, ret)
       ELSE /\ pc' = [pc EXCEPT ![t] = ret]
            /\ next_state_' = state_
            /\ UNCHANGED <<state_, source_item, sink_item, source_swaps, sink_swaps>>
  /\ UNCHANGED error

\* ------------------------------------------------------------------------
\* Node programs of the tests.  "rounds": source_node / sink_node of the
\* n-iterations tests; "integers": those of the n-integer tests.
\* ------------------------------------------------------------------------
FirstPos(t) ==
  IF test = "integers" THEN "spin" ELSE IF t = "source" THEN "fill" ELSE "pull"

AfterPush == IF test = "integers" THEN "mark" ELSE "loop"

AfterDrain == IF test = "integers" THEN "read" ELSE "loop"

\* while (n--)
NodeLoop(t) ==
  /\ pc[t] = "loop"
  /\ IF n[t] = 0
       THEN pc' = [pc EXCEPT ![t] = "done"] /\ UNCHANGED n
       ELSE pc' = [pc EXCEPT ![t] = FirstPos(t)] /\ n' = [n EXCEPT ![t] = n[t] - 1]
  /\ UNCHANGED <<policy, test, rounds, applied, state_, next_state_, source_item, sink_item,
                 source_swaps, sink_swaps, i, output, error>>
  /\ UNCHANGED queuevars

SourceLoop == NodeLoop("source")

SinkLoop == NodeLoop("sink")

\* while (a.state() == full_empty || a.state() == full_full) ;
\* the condition reads the state twice, without the lock.  First read:
\* full_empty keeps the loop going, anything else goes on to the second read
SourceSpin ==
  /\ pc["source"] = "spin"
  /\ state_ # "full_empty"
  /\ pc' = [pc EXCEPT !["source"] = "spin2"]
  /\ UNCHANGED <<policy, test, rounds, applied, state_, next_state_, source_item, sink_item,
                 source_swaps, sink_swaps, n, i, output, error>>
  /\ UNCHANGED queuevars

\* second read: full_full starts the loop again, anything else leaves it
SourceSpinSecond ==
  /\ pc["source"] = "spin2"
  /\ pc' = [pc EXCEPT !["source"] = IF state_ = "full_full" THEN "spin" ELSE "write"]
  /\ UNCHANGED <<policy, test, rounds, applied, state_, next_state_, source_item, sink_item,
                 source_swaps, sink_swaps, n, i, output, error>>
  /\ UNCHANGED queuevars

\* a.source_item = *i++
SourceWrite ==
  /\ pc["source"] = "write"
  /\ source_item' = Input(i)
  /\ i' = i + 1
  /\ pc' = [pc EXCEPT !["source"] = "fill"]
  /\ UNCHANGED <<policy, test, rounds, applied, state_, next_state_, sink_item,
                 source_swaps, sink_swaps, n, output, error>>
  /\ UNCHANGED queuevars

\* a.event(PortEvent::source_fill)
SourceFill ==
  /\ pc["source"] = "fill"
  /\ event_source_fill("source", "push")
  /\ UNCHANGED <<policy, test, rounds, applied, n, i, output>>
  /\ UNCHANGED queuevars

\* a.event(PortEvent::push), from the call or from a wake-up
Push ==
  /\ pc["source"] \in {"push", "push_woken"}
  /\ event_push("source", AfterPush)
  /\ UNCHANGED <<policy, test, rounds, applied, n, i, output>>
  /\ UNCHANGED queuevars

\* a.source_item = 400000000
SourceMarkItem ==
  /\ pc["source"] = "mark"
  /\ source_item' = SourceMark
  /\ pc' = [pc EXCEPT !["source"] = "loop"]
  /\ UNCHANGED <<policy, test, rounds, applied, state_, next_state_, sink_item,
                 source_swaps, sink_swaps, n, i, output, error>>
  /\ UNCHANGED queuevars

\* while (a.state() == full_full || a.state() == empty_full) ;
\* first read: full_full keeps the loop going
SinkSpin ==
  /\ pc["sink"] = "spin"
  /\ state_ # "full_full"
  /\ pc' = [pc EXCEPT !["sink"] = "spin2"]
  /\ UNCHANGED <<policy, test, rounds, applied, state_, next_state_, source_item, sink_item,
                 source_swaps, sink_swaps, n, i, output, error>>
  /\ UNCHANGED queuevars

\* second read: empty_full starts the loop again, anything else leaves it
SinkSpinSecond ==
  /\ pc["sink"] = "spin2"
  /\ pc' = [pc EXCEPT !["sink"] = IF state_ = "empty_full" THEN "spin" ELSE "pull"]
  /\ UNCHANGED <<policy, test, rounds, applied, state_, next_state_, source_item, sink_item,
                 source_swaps, sink_swaps, n, i, output, error>>
  /\ UNCHANGED queuevars

\* a.event(PortEvent::pull), from the call or from a wake-up
Pull ==
  /\ pc["sink"] \in {"pull", "pull_woken"}
  /\ event_pull("sink", "drain")
  /\ UNCHANGED <<policy, test, rounds, applied, n, i, output>>
  /\ UNCHANGED queuevars

\* a.event(PortEvent::sink_drain)
SinkDrain ==
  /\ pc["sink"] = "drain"
  /\ event_sink_drain("sink", AfterDrain)
  /\ UNCHANGED <<policy, test, rounds, applied, n, i, output>>
  /\ UNCHANGED queuevars

\* *j++ = a.sink_item
SinkRead ==
  /\ pc["sink"] = "read"
  /\ output' = Append(output, sink_item)
  /\ pc' = [pc EXCEPT !["sink"] = "mark"]
  /\ UNCHANGED <<policy, test, rounds, applied, state_, next_state_, source_item, sink_item,
                 source_swaps, sink_swaps, n, i, error>>
  /\ UNCHANGED queuevars

\* a.sink_item = 1000000000
SinkMarkItem ==
  /\ pc["sink"] = "mark"
  /\ sink_item' = SinkMark
  /\ pc' = [pc EXCEPT !["sink"] = "loop"]
  /\ UNCHANGED <<policy, test, rounds, applied, state_, next_state_, source_item,
                 source_swaps, sink_swaps, n, i, output, error>>
  /\ UNCHANGED queuevars

\* std::condition_variable::wait(lock) may return without a notification
SpuriousWakeup ==
  /\ \E t \in Threads :
       /\ pc[t] \in {"push_wait", "pull_wait"}
       /\ pc' = [pc EXCEPT ![t] = Woken(pc[t])]
  /\ UNCHANGED <<policy, test, rounds, applied, state_, next_state_, source_item, sink_item,
                 source_swaps, sink_swaps, n, i, output, error>>
  /\ UNCHANGED queuevars

\* ------------------------------------------------------------------------
\* The manual policy: the events of "Basic manual sequence", applied in
\* order by the test's own thread; no hook waits or notifies
\* ------------------------------------------------------------------------
ManualSequence ==
  <<"source_fill", "push", "source_fill", "sink_drain", "push", "sink_drain",
    "source_fill", "pull", "source_fill", "sink_drain", "pull", "sink_drain",
    "source_fill", "push", "source_fill", "sink_drain", "pull", "sink_drain",
    "source_fill", "pull", "source_fill", "sink_drain", "push", "sink_drain">>

\* event() of the manual machine: the table alone decides the next state
DebugStateMachine_event(ev) ==
  IF transition_table(state_, ev) = "error"
    THEN /\ error' = TRUE
         /\ UNCHANGED <<state_, next_state_>>
    ELSE /\ state_' = transition_table(state_, ev)
         /\ next_state_' = state_'
         /\ UNCHANGED error

\* a.event(PortEvent::...) number applied + 1 of the sequence
ManualStep ==
  /\ pc["main"] = "script"
  /\ applied < Len(ManualSequence)
  /\ DebugStateMachine_event(ManualSequence[applied + 1])
  /\ applied' = applied + 1
  /\ pc' = [pc EXCEPT !["main"] =
              IF applied + 1 = Len(ManualSequence) THEN "done" ELSE "script"]
  /\ UNCHANGED <<policy, test, rounds, source_item, sink_item,
                 source_swaps, sink_swaps, n, i, output>>
  /\ UNCHANGED queuevars

\* ------------------------------------------------------------------------
\* RandomizedQueue.  Every member function holds mutex_ for its whole body,
\* so a call is one atomic step; pop() is split at empty_cv_.wait.
\* ------------------------------------------------------------------------
QThreads == 1 .. NumQThreads
Items == 1 .. MaxItem
NoItem == 0
NoThread == 0

\* bag of the elements of a sequence
BagOf(s) == [x \in {s[k] : k \in DOMAIN s} |-> Cardinality({k \in DOMAIN s : s[k] = x})]

\* empty_cv_.notify_one() issued by thread t: the possible resulting qpc
empty_cv_notify_one(t) ==
  LET W == {w \in QThreads : qpc[w] = "pop_wait"} IN
  IF W = {} THEN {qpc} ELSE {[qpc EXCEPT ![w] = "pop_woken"] : w \in W}

\* empty_cv_.notify_all()
empty_cv_notify_all ==
  [w \in QThreads |-> IF qpc[w] = "pop_wait" THEN "pop_woken" ELSE qpc[w]]

\* shuffle_items that leaves items_ in the order of insertion
shuffle_items_keeps_order == {items_}

\* shuffle_items(): the orders std::shuffle can leave items_ in
shuffle_items ==
  {[k \in DOMAIN items_ |-> items_[p[k]]] : p \in Permutations(DOMAIN items_)}

Back(s) == s[Len(s)]

PopBack(s) == SubSeq(s, 1, Len(s) - 1)

Returns(o, v) == last' = [op |-> o, val |-> v]

\* push that tests shutdown_ only
push_ignores_draining(t, item) ==
  IF shutdown_
    THEN /\ Returns("push", FALSE)
         /\ UNCHANGED <<items_, qpc, pushed>>
    ELSE /\ items_' = Append(items_, item)
         /\ qpc' \in empty_cv_notify_one(t)
         /\ pushed' = pushed (+) SetToBag({item})
         /\ Returns("push", TRUE)

\* push without empty_cv_.notify_one()
push_no_notify(t, item) ==
  IF draining_ \/ shutdown_
    THEN /\ Returns("push", FALSE)
         /\ UNCHANGED <<items_, qpc, pushed>>
    ELSE /\ items_' = Append(items_, item)
         /\ qpc' = qpc
         /\ pushed' = pushed (+) SetToBag({item})
         /\ Returns("push", TRUE)

\* bool push(const Item& item)
push(t, item) ==
  IF draining_ \/ shutdown_
    THEN /\ Returns("push", FALSE)
         /\ UNCHANGED <<items_, qpc, pushed>>
    ELSE /\ items_' = Append(items_, item)
         /\ qpc' \in empty_cv_notify_one(t)
         /\ pushed' = pushed (+) SetToBag({item})
         /\ Returns("push", TRUE)

\* try_push that refuses an item while one is queued
try_push_bounded(t, item) ==
  IF draining_ \/ shutdown_ \/ items_ # <<>>
    THEN /\ Returns("try_push", FALSE)
         /\ UNCHANGED <<items_, qpc, pushed>>
    ELSE /\ items_' = Append(items_, item)
         /\ qpc' \in empty_cv_notify_one(t)
         /\ pushed' = pushed (+) SetToBag({item})
         /\ Returns("try_push", TRUE)

\* bool try_push(const Item& item)
try_push(t, item) ==
  IF draining_ \/ shutdown_
    THEN /\ Returns("try_push", FALSE)
         /\ UNCHANGED <<items_, qpc, pushed>>
    ELSE /\ items_' = Append(items_, item)
         /\ qpc' \in empty_cv_notify_one(t)
         /\ pushed' = pushed (+) SetToBag({item})
         /\ Returns("try_push", TRUE)

\* try_pop without items_.pop_back()
try_pop_no_pop_back(t) ==
  IF items_ = <<>> \/ draining_ \/ shutdown_
    THEN /\ Returns("try_pop", NoItem)
         /\ UNCHANGED <<items_, returned>>
    ELSE \E sh \in shuffle_items :
           /\ items_' = sh
           /\ returned' = returned (+) SetToBag({Back(sh)})
           /\ Returns("try_pop", Back(sh))

\* std::optional<Item> try_pop()
try_pop(t) ==
  IF items_ = <<>> \/ draining_ \/ shutdown_
    THEN /\ Returns("try_pop", NoItem)
         /\ UNCHANGED <<items_, returned>>
    ELSE \E sh \in shuffle_items :
           /\ items_' = PopBack(sh)
           /\ returned' = returned (+) SetToBag({Back(sh)})
           /\ Returns("try_pop", Back(sh))

\* pop whose test after the wait leaves out shutdown_
pop_ignores_shutdown(t) ==
  IF ~ (items_ # <<>> \/ draining_ \/ shutdown_)
    THEN /\ qpc' = [qpc EXCEPT ![t] = "pop_wait"]
         /\ UNCHANGED <<items_, returned, last>>
    ELSE /\ qpc' = [qpc EXCEPT ![t] = "idle"]
         /\ IF items_ = <<>>
              THEN /\ Returns("pop", NoItem)
                   /\ UNCHANGED <<items_, returned>>
              ELSE \E sh \in shuffle_items :
                     /\ items_' = PopBack(sh)
                     /\ returned' = returned (+) SetToBag({Back(sh)})
                     /\ Returns("pop", Back(sh))

\* pop that returns nothing as soon as draining_ is set
pop_stops_on_draining(t) ==
  IF ~ (items_ # <<>> \/ draining_ \/ shutdown_)
    THEN /\ qpc' = [qpc EXCEPT ![t] = "pop_wait"]
         /\ UNCHANGED <<items_, returned, last>>
    ELSE /\ qpc' = [qpc EXCEPT ![t] = "idle"]
         /\ IF draining_ \/ shutdown_
              THEN /\ Returns("pop", NoItem)
                   /\ UNCHANGED <<items_, returned>>
              ELSE \E sh \in shuffle_items :
                     /\ items_' = PopBack(sh)
                     /\ returned' = returned (+) SetToBag({Back(sh)})
                     /\ Returns("pop", Back(sh))

\* pop without the wait on empty_cv_
pop_no_wait(t) ==
  /\ qpc' = [qpc EXCEPT ![t] = "idle"]
  /\ IF items_ = <<>> \/ shutdown_
       THEN /\ Returns("pop", NoItem)
            /\ UNCHANGED <<items_, returned>>
       ELSE \E sh \in shuffle_items :
              /\ items_' = PopBack(sh)
              /\ returned' = returned (+) SetToBag({Back(sh)})
              /\ Returns("pop", Back(sh))

\* std::optional<Item> pop(): thread t holds the lock, either on entry or
\* after empty_cv_ has woken it, and evaluates the wait predicate
pop(t) ==
  IF ~ (items_ # <<>> \/ draining_ \/ shutdown_)
    THEN /\ qpc' = [qpc EXCEPT ![t] = "pop_wait"]
         /\ UNCHANGED <<items_, returned, last>>
    ELSE /\ qpc' = [qpc EXCEPT ![t] = "idle"]
         /\ IF (draining_ /\ items_ = <<>>) \/ shutdown_
              THEN /\ Returns("pop", NoItem)
                   /\ UNCHANGED <<items_, returned>>
              ELSE \E sh \in shuffle_items :
                     /\ items_' = PopBack(sh)
                     /\ returned' = returned (+) SetToBag({Back(sh)})
                     /\ Returns("pop", Back(sh))

\* drain that flips draining_
drain_flips_flag(t) ==
  /\ draining_' = ~ draining_
  /\ qpc' = empty_cv_notify_all
  /\ Returns("drain", TRUE)

\* drain that wakes one waiting thread only
drain_notify_one(t) ==
  /\ draining_' = TRUE
  /\ qpc' \in empty_cv_notify_one(t)
  /\ Returns("drain", TRUE)

\* void drain()
drain(t) ==
  /\ draining_' = TRUE
  /\ qpc' = empty_cv_notify_all
  /\ Returns("drain", TRUE)

\* void shutdown()
shutdown(t) ==
  /\ shutdown_' = TRUE
  /\ qpc' = empty_cv_notify_all
  /\ Returns("shutdown", TRUE)

\* the calls a thread can make while it is in no call; the call takes
\* mutex_ and gives it back (returning or waiting) within the step
QPush ==
  /\ \E t \in QThreads, item \in Items :
       /\ qpc[t] = "idle"
       /\ (draining_ \/ shutdown_ \/ BagCardinality(pushed) < MaxPushes)
       /\ push(t, item)
  /\ UNCHANGED <<draining_, shutdown_, returned, drained>>
  /\ UNCHANGED <<mutex_, drain_waiters>>
  /\ UNCHANGED swapvars
  /\ UNCHANGED chanvars

QTryPush ==
  /\ \E t \in QThreads, item \in Items :
       /\ qpc[t] = "idle"
       /\ (draining_ \/ shutdown_ \/ BagCardinality(pushed) < MaxPushes)
       /\ try_push(t, item)
  /\ UNCHANGED <<draining_, shutdown_, returned, drained>>
  /\ UNCHANGED <<mutex_, drain_waiters>>
  /\ UNCHANGED swapvars
  /\ UNCHANGED chanvars

QTryPop ==
  /\ \E t \in QThreads :
       /\ qpc[t] = "idle"
       /\ try_pop(t)
  /\ UNCHANGED <<draining_, shutdown_, qpc, pushed, drained>>
  /\ UNCHANGED <<mutex_, drain_waiters>>
  /\ UNCHANGED swapvars
  /\ UNCHANGED chanvars

\* pop() from its call, or continuing after a wake-up
QPop ==
  /\ \E t \in QThreads :
       /\ qpc[t] \in {"idle", "pop_woken"}
       /\ pop(t)
  /\ UNCHANGED <<draining_, shutdown_, pushed, drained>>
  /\ UNCHANGED <<mutex_, drain_waiters>>
  /\ UNCHANGED swapvars
  /\ UNCHANGED chanvars

QDrain ==
  /\ \E t \in QThreads :
       /\ qpc[t] = "idle"
       /\ drain(t)
  /\ drained' = IF draining_ THEN drained
                ELSE [set |-> TRUE, items |-> BagOf(items_), returned |-> returned]
  /\ UNCHANGED <<items_, shutdown_, pushed, returned>>
  /\ UNCHANGED <<mutex_, drain_waiters>>
  /\ UNCHANGED swapvars
  /\ UNCHANGED chanvars

QShutdown ==
  /\ \E t \in QThreads :
       /\ qpc[t] = "idle"
       /\ shutdown(t)
  /\ UNCHANGED <<items_, draining_, pushed, returned, drained>>
  /\ UNCHANGED <<mutex_, drain_waiters>>
  /\ UNCHANGED swapvars
  /\ UNCHANGED chanvars

\* empty_cv_.wait(lock, pred) may wake without a notification
QSpuriousWakeup ==
  /\ \E t \in QThreads :
       /\ qpc[t] = "pop_wait"
       /\ qpc' = [qpc EXCEPT ![t] = "pop_woken"]
  /\ UNCHANGED <<items_, draining_, shutdown_, last, pushed, returned, drained>>
  /\ UNCHANGED <<mutex_, drain_waiters>>
  /\ UNCHANGED swapvars
  /\ UNCHANGED chanvars

\* ------------------------------------------------------------------------
\* Initial states and specifications
\* ------------------------------------------------------------------------
\* AsyncStateMachine{0, 0} / UnifiedAsyncStateMachine{0, 0}, a.set_state(empty_empty)
ChannelInit ==
  /\ state_ = "empty_empty"
  /\ next_state_ = "empty_empty"
  /\ source_item = SlotInit
  /\ sink_item = SlotInit
  /\ source_swaps = 0
  /\ sink_swaps = 0
  /\ pc = [t \in Threads \cup {"main"} |->
            IF test = "manual" THEN (IF t = "main" THEN "script" ELSE "unused")
            ELSE (IF t = "main" THEN "join" ELSE "loop")]
  /\ n = [t \in Threads |-> rounds]
  /\ applied = 0
  /\ i = 1
  /\ output = <<>>
  /\ error = FALSE

\* RandomizedQueue() = default
QueueInit ==
  /\ items_ = <<>>
  /\ draining_ = FALSE
  /\ shutdown_ = FALSE
  /\ mutex_ = NoThread
  /\ qpc = [t \in QThreads |-> "idle"]
  /\ last = [op |-> "none", val |-> NoItem]
  /\ pushed = EmptyBag
  /\ returned = EmptyBag
  /\ drained = [set |-> FALSE, items |-> EmptyBag, returned |-> EmptyBag]
  /\ drain_waiters = {}
  /\ rhs_items_ = <<>>
  /\ swap_tmp = <<>>
  /\ swap_seen = [a |-> <<>>, b |-> <<>>]

Init ==
  /\ policy \in Policies
  /\ test \in Tests
  /\ policy = "manual" <=> test = "manual"
  /\ rounds \in 1 .. Rounds
  /\ test = "manual" => rounds = 1
  /\ ChannelInit
  /\ QueueInit

Next ==
  \/ SourceLoop
  \/ SourceSpin
  \/ SourceSpinSecond
  \/ SourceWrite
  \/ SourceFill
  \/ Push
  \/ SourceMarkItem
  \/ SinkLoop
  \/ SinkSpin
  \/ SinkSpinSecond
  \/ Pull
  \/ SinkDrain
  \/ SinkRead
  \/ SinkMarkItem
  \/ SpuriousWakeup
  \/ ManualStep

\* the channel with its two node threads
Spec == Init /\ [][Next]_vars

\* the steps of each node thread; a thread that can run eventually runs
SourceStep ==
  \/ SourceLoop \/ SourceSpin \/ SourceSpinSecond \/ SourceWrite
  \/ SourceFill \/ Push \/ SourceMarkItem

SinkStep ==
  \/ SinkLoop \/ SinkSpin \/ SinkSpinSecond \/ Pull
  \/ SinkDrain \/ SinkRead \/ SinkMarkItem

FairSpec == Spec /\ WF_vars(SourceStep) /\ WF_vars(SinkStep)

QInit ==
  /\ policy = "async"
  /\ test = "rounds"
  /\ rounds = Rounds
  /\ ChannelInit
  /\ QueueInit

QNext ==
  \/ QPush
  \/ QTryPush
  \/ QTryPop
  \/ QPop
  \/ QDrain
  \/ QShutdown
  \/ QSpuriousWakeup

\* the queue shared by QThreads
QSpec == QInit /\ [][QNext]_vars

\* a thread that empty_cv_ has woken gets the mutex and goes on with pop()
QPopResume(t) ==
  /\ qpc[t] = "pop_woken"
  /\ pop(t)
  /\ UNCHANGED <<draining_, shutdown_, pushed, drained>>
  /\ UNCHANGED <<mutex_, drain_waiters>>
  /\ UNCHANGED swapvars
  /\ UNCHANGED chanvars

QFairSpec == QSpec /\ \A t \in QThreads : WF_vars(QPopResume(t))

\* One consumer: thread Consumer alone takes items, with pop() or try_pop();
\* every thread may push; the queue stays open
Consumer == 1

ConsumerPop ==
  /\ qpc[Consumer] \in {"idle", "pop_woken"}
  /\ pop(Consumer)
  /\ UNCHANGED <<draining_, shutdown_, pushed, drained>>
  /\ UNCHANGED <<mutex_, drain_waiters>>
  /\ UNCHANGED swapvars
  /\ UNCHANGED chanvars

ConsumerTryPop ==
  /\ qpc[Consumer] = "idle"
  /\ try_pop(Consumer)
  /\ UNCHANGED <<draining_, shutdown_, qpc, pushed, drained>>
  /\ UNCHANGED <<mutex_, drain_waiters>>
  /\ UNCHANGED swapvars
  /\ UNCHANGED chanvars

ConsumerSpuriousWakeup ==
  /\ qpc[Consumer] = "pop_wait"
  /\ qpc' = [qpc EXCEPT ![Consumer] = "pop_woken"]
  /\ UNCHANGED <<items_, draining_, shutdown_, last, pushed, returned, drained>>
  /\ UNCHANGED <<mutex_, drain_waiters>>
  /\ UNCHANGED swapvars
  /\ UNCHANGED chanvars

QConsumerNext ==
  \/ QPush
  \/ QTryPush
  \/ ConsumerPop
  \/ ConsumerTryPop
  \/ ConsumerSpuriousWakeup

QConsumerSpec == QInit /\ [][QConsumerNext]_vars /\ WF_vars(ConsumerPop)

\* The queue with the threads that drain() found waiting kept on record:
\* drain() and pop() as in QSpec, and they maintain drain_waiters
WatchedDrain ==
  /\ \E t \in QThreads :
       /\ qpc[t] = "idle"
       /\ drain(t)
  /\ drain_waiters' = drain_waiters \cup {w \in QThreads : qpc[w] = "pop_wait"}
  /\ drained' = IF draining_ THEN drained
                ELSE [set |-> TRUE, items |-> BagOf(items_), returned |-> returned]
  /\ UNCHANGED <<items_, shutdown_, mutex_, pushed, returned>>
  /\ UNCHANGED swapvars
  /\ UNCHANGED chanvars

WatchedPopBy(t) ==
  /\ qpc[t] \in {"idle", "pop_woken"}
  /\ pop(t)
  /\ drain_waiters' = drain_waiters \ {t}
  /\ UNCHANGED <<draining_, shutdown_, mutex_, pushed, drained>>
  /\ UNCHANGED swapvars
  /\ UNCHANGED chanvars

WatchedPop == \E t \in QThreads : WatchedPopBy(t)

QWatchedNext ==
  \/ QPush
  \/ QTryPop
  \/ WatchedPop
  \/ WatchedDrain
  \/ QShutdown
  \/ QSpuriousWakeup

QWatchedSpec == QInit /\ [][QWatchedNext]_vars

\* ------------------------------------------------------------------------
\* The queue with the mutex visible: taking mutex_ is a step of its own, so
\* a thread can be inside push / pop / drain while the others run
\* ------------------------------------------------------------------------
\* std::scoped_lock lock{mutex_} / std::unique_lock lock{mutex_}, and the
\* re-acquisition at the end of empty_cv_.wait
LockAcquire ==
  /\ \E t \in QThreads :
       /\ qpc[t] \in {"idle", "pop_woken"}
       /\ mutex_ = NoThread
       /\ mutex_' = t
  /\ UNCHANGED <<items_, draining_, shutdown_, qpc, last, pushed, returned, drained>>
  /\ UNCHANGED drain_waiters
  /\ UNCHANGED swapvars
  /\ UNCHANGED chanvars

\* body of push, ended by the release of mutex_
LockedPush ==
  /\ \E t \in QThreads, item \in Items :
       /\ mutex_ = t
       /\ qpc[t] = "idle"
       /\ (draining_ \/ shutdown_ \/ BagCardinality(pushed) < MaxPushes)
       /\ push(t, item)
  /\ mutex_' = NoThread
  /\ UNCHANGED <<draining_, shutdown_, returned, drained>>
  /\ UNCHANGED drain_waiters
  /\ UNCHANGED swapvars
  /\ UNCHANGED chanvars

\* body of pop; empty_cv_.wait releases mutex_ as well
LockedPop ==
  /\ \E t \in QThreads :
       /\ mutex_ = t
       /\ pop(t)
  /\ mutex_' = NoThread
  /\ UNCHANGED <<draining_, shutdown_, pushed, drained>>
  /\ UNCHANGED drain_waiters
  /\ UNCHANGED swapvars
  /\ UNCHANGED chanvars

\* body of drain
LockedDrain ==
  /\ \E t \in QThreads :
       /\ mutex_ = t
       /\ qpc[t] = "idle"
       /\ drain(t)
  /\ mutex_' = NoThread
  /\ drained' = IF draining_ THEN drained
                ELSE [set |-> TRUE, items |-> BagOf(items_), returned |-> returned]
  /\ UNCHANGED <<items_, shutdown_, pushed, returned>>
  /\ UNCHANGED drain_waiters
  /\ UNCHANGED swapvars
  /\ UNCHANGED chanvars

\* the values items_.size() can give: with another thread inside a member
\* function that changes items_ the read is a data race, and the value is
\* the size before, during or after that change
size_values ==
  IF mutex_ = NoThread THEN {Len(items_)}
  ELSE {v \in 0 .. MaxPushes : v >= Len(items_) - 1 /\ v <= Len(items_) + 1}

\* inline size_t size() const: no lock is taken
size(t) ==
  /\ qpc[t] = "idle"
  /\ mutex_ # t
  /\ \E v \in size_values : Returns("size", v)

\* inline bool empty() const: no lock is taken
empty(t) ==
  /\ qpc[t] = "idle"
  /\ mutex_ # t
  /\ \E v \in size_values : Returns("empty", v = 0)

QSize ==
  /\ \E t \in QThreads : size(t)
  /\ UNCHANGED <<items_, draining_, shutdown_, mutex_, qpc, pushed, returned, drained>>
  /\ UNCHANGED drain_waiters
  /\ UNCHANGED swapvars
  /\ UNCHANGED chanvars

QEmpty ==
  /\ \E t \in QThreads : empty(t)
  /\ UNCHANGED <<items_, draining_, shutdown_, mutex_, qpc, pushed, returned, drained>>
  /\ UNCHANGED drain_waiters
  /\ UNCHANGED swapvars
  /\ UNCHANGED chanvars

QLockNext ==
  \/ LockAcquire
  \/ LockedPush
  \/ LockedPop
  \/ LockedDrain
  \/ QSize
  \/ QEmpty

QLockSpec == QInit /\ [][QLockNext]_vars

\* ------------------------------------------------------------------------
\* swap_data: this queue (items_, mutex_) and a second queue rhs.  The
\* function names rhs.queue_, which RandomizedQueue does not have; it is
\* read here as rhs.items_, the data of the other queue.  swap_data takes
\* mutex_ of this queue only, so the calls on rhs run while it is at work,
\* and std::swap is then not one step: it moves items_ out, moves
\* rhs.items_ in, and moves the temporary into rhs.items_.
\* ------------------------------------------------------------------------
SwapPositions == {"swap_locked", "swap_moved_out", "swap_moved_in"}

\* push on rhs, which is open; no thread waits on rhs
rhs_push(t, item) ==
  /\ rhs_items_' = Append(rhs_items_, item)
  /\ pushed' = pushed (+) SetToBag({item})
  /\ Returns("push", TRUE)

\* try_pop on rhs
rhs_try_pop(t) ==
  IF rhs_items_ = <<>>
    THEN /\ Returns("try_pop", NoItem)
         /\ UNCHANGED <<rhs_items_, returned>>
    ELSE \E p \in Permutations(DOMAIN rhs_items_) :
           LET sh == [k \in DOMAIN rhs_items_ |-> rhs_items_[p[k]]] IN
           /\ rhs_items_' = PopBack(sh)
           /\ returned' = returned (+) SetToBag({Back(sh)})
           /\ Returns("try_pop", Back(sh))

RhsPush ==
  /\ \E t \in QThreads, item \in Items :
       /\ qpc[t] = "idle"
       /\ BagCardinality(pushed) < MaxPushes
       /\ rhs_push(t, item)
  /\ UNCHANGED <<items_, draining_, shutdown_, mutex_, qpc, returned, drained, drain_waiters>>
  /\ UNCHANGED <<swap_tmp, swap_seen>>
  /\ UNCHANGED chanvars

RhsTryPop ==
  /\ \E t \in QThreads :
       /\ qpc[t] = "idle"
       /\ rhs_try_pop(t)
  /\ UNCHANGED <<items_, draining_, shutdown_, mutex_, qpc, pushed, drained, drain_waiters>>
  /\ UNCHANGED <<swap_tmp, swap_seen>>
  /\ UNCHANGED chanvars

\* push / try_pop on this queue: the call needs mutex_
ThisPush == mutex_ = NoThread /\ QPush

ThisTryPop == mutex_ = NoThread /\ QTryPop

\* std::scoped_lock lock{mutex_}
SwapDataLock ==
  /\ \E t \in QThreads :
       /\ qpc[t] = "idle"
       /\ mutex_ = NoThread
       /\ mutex_' = t
       /\ qpc' = [qpc EXCEPT ![t] = "swap_locked"]
  /\ UNCHANGED <<items_, draining_, shutdown_, last, pushed, returned, drained, drain_waiters>>
  /\ UNCHANGED swapvars
  /\ UNCHANGED chanvars

\* std::swap: tmp = std::move(items_)
SwapDataMoveOut ==
  /\ \E t \in QThreads :
       /\ qpc[t] = "swap_locked"
       /\ qpc' = [qpc EXCEPT ![t] = "swap_moved_out"]
  /\ swap_tmp' = items_
  /\ items_' = <<>>
  /\ swap_seen' = [a |-> items_, b |-> rhs_items_]
  /\ UNCHANGED <<draining_, shutdown_, mutex_, last, pushed, returned, drained, drain_waiters>>
  /\ UNCHANGED rhs_items_
  /\ UNCHANGED chanvars

\* std::swap: items_ = std::move(rhs.items_)
SwapDataMoveIn ==
  /\ \E t \in QThreads :
       /\ qpc[t] = "swap_moved_out"
       /\ qpc' = [qpc EXCEPT ![t] = "swap_moved_in"]
  /\ items_' = rhs_items_
  /\ rhs_items_' = <<>>
  /\ UNCHANGED <<draining_, shutdown_, mutex_, last, pushed, returned, drained, drain_waiters>>
  /\ UNCHANGED <<swap_tmp, swap_seen>>
  /\ UNCHANGED chanvars

\* std::swap: rhs.items_ = std::move(tmp); the lock is released on return
SwapDataMoveBack ==
  /\ \E t \in QThreads :
       /\ qpc[t] = "swap_moved_in"
       /\ qpc' = [qpc EXCEPT ![t] = "idle"]
  /\ rhs_items_' = swap_tmp
  /\ swap_tmp' = <<>>
  /\ mutex_' = NoThread
  /\ Returns("swap_data", TRUE)
  /\ UNCHANGED <<items_, draining_, shutdown_, pushed, returned, drained, drain_waiters>>
  /\ UNCHANGED swap_seen
  /\ UNCHANGED chanvars

QSwapNext ==
  \/ ThisPush
  \/ ThisTryPop
  \/ RhsPush
  \/ RhsTryPop
  \/ SwapDataLock
  \/ SwapDataMoveOut
  \/ SwapDataMoveIn
  \/ SwapDataMoveBack

QSwapSpec == QInit /\ [][QSwapNext]_vars

\* ------------------------------------------------------------------------
\* Properties of the channel
\* ------------------------------------------------------------------------
BothDone == pc["source"] = "done" /\ pc["sink"] = "done"

\* C1: in the n-integer tests the values the consumer stores through j are
\* input[1], input[2], ... in order: no value lost, duplicated, reordered or
\* replaced by a placeholder
C1_OutputEqualsInput == \A k \in DOMAIN output : output[k] = Input(k)

\* C2: the two nodes of the n-iterations tests are never both blocked on a
\* condition variable, and under fair scheduling both complete all rounds
C2_NoDeadlock ==
  /\ [](~ (pc["source"] = "push_wait" /\ pc["sink"] = "pull_wait"))
  /\ ((test = "rounds") ~> BothDone)

C2_Witness ==
  /\ test = "rounds"
  /\ rounds = Rounds
  /\ BothDone
  /\ source_swaps + sink_swaps = Rounds

\* C3: push returns only with the source slot empty and pull returns only
\* with the sink slot full, so source_fill is never applied to a full source
\* slot and sink_drain never to an empty sink slot
C3_ReturnStates ==
  /\ [][/\ (pc["source"] \in {"push", "push_woken"} /\ pc'["source"] = AfterPush
              => is_src_empty(state_'))
        /\ (pc["sink"] \in {"pull", "pull_woken"} /\ pc'["sink"] = "drain"
              => is_snk_full(state_'))]_vars
  /\ [](error = FALSE)

C3_Witness ==
  /\ pc["sink"] = "drain"
  /\ pc["source"] = AfterPush
  /\ n["source"] = 0
  /\ state_ = "empty_full"
  /\ source_swaps >= 1

\* C4: once both nodes have completed their rounds the channel is in
\* empty_empty, under both policies and both node programs
C4_FinalState == BothDone => state_ = "empty_empty"

C4_Witness ==
  /\ BothDone
  /\ state_ = "empty_empty"
  /\ policy = "unified"
  /\ n = [t \in Threads |-> 0]

\* ------------------------------------------------------------------------
\* Properties of RandomizedQueue
\* ------------------------------------------------------------------------
\* a pop() call or wake-up that ends in empty_cv_.wait
PopBlocks == \E t \in QThreads : qpc'[t] = "pop_wait" /\ qpc[t] # "pop_wait"

\* C5: the items returned by pop / try_pop together with the items still in
\* items_ are exactly the items whose push / try_push returned true
C5_Conservation == returned (+) BagOf(items_) = pushed

C5_Witness ==
  /\ BagCardinality(pushed) = MaxPushes
  /\ returned # EmptyBag
  /\ items_ # <<>>
  /\ last.op \in {"pop", "try_pop"}

\* C6: once shutdown_ is set it stays set, no thread is left waiting in
\* pop, every pop / try_pop returns no item, and items_ never changes
C6_ShutdownStops ==
  /\ [](shutdown_ => \A t \in QThreads : qpc[t] # "pop_wait")
  /\ [][shutdown_ =>
          /\ shutdown_'
          /\ items_' = items_
          /\ returned' = returned
          /\ (QPop \/ QTryPop => last'.op \in {"pop", "try_pop"} /\ last'.val = NoItem)]_vars

C6_Witness ==
  /\ shutdown_
  /\ Len(items_) >= 2
  /\ last.op = "pop"
  /\ last.val = NoItem

\* C7: after drain() on a queue that is not shut down, pop never blocks,
\* returns one of the queued items while there is one and no item after
\* that, and the items popped since drain() plus the items still queued are
\* the items queued when drain() ran
C7_DrainServesRemaining ==
  /\ [](draining_ /\ ~ shutdown_ =>
          (returned (-) drained.returned) (+) BagOf(items_) = drained.items)
  /\ [][draining_ /\ ~ shutdown_ /\ QPop =>
          /\ \A t \in QThreads : qpc'[t] # "pop_wait"
          /\ last'.op = "pop"
          /\ IF items_ = <<>>
               THEN last'.val = NoItem /\ items_' = items_
               ELSE /\ BagIn(last'.val, BagOf(items_))
                    /\ BagOf(items_') (+) SetToBag({last'.val}) = BagOf(items_)]_vars

C7_Witness ==
  /\ draining_
  /\ ~ shutdown_
  /\ BagCardinality(drained.items) >= 2
  /\ items_ = <<>>
  /\ returned (-) drained.returned = drained.items
  /\ last.op = "pop"
  /\ last.val = NoItem

C9_TryPopWhileDraining ==
  [][QTryPop =>
       /\ (items_ # <<>> /\ ~ shutdown_ => last'.val # NoItem)
       /\ (last'.val = NoItem => items_ = <<>> \/ shutdown_)]_vars

\* C10: pop returns no item only when shutdown_ is set or draining_ is set
\* with items_ empty; with items_ empty and neither flag set, pop does not
\* return: the thread waits on empty_cv_
C10_PopNoItem ==
  [][QPop =>
       /\ (~ PopBlocks /\ last'.val = NoItem => shutdown_ \/ (draining_ /\ items_ = <<>>))
       /\ (items_ = <<>> /\ ~ draining_ /\ ~ shutdown_ => PopBlocks /\ last' = last)]_vars

C10_Witness ==
  /\ \E t \in QThreads : qpc[t] = "pop_wait"
  /\ items_ = <<>>
  /\ returned # EmptyBag
  /\ ~ draining_
  /\ ~ shutdown_

\* C11: with one consumer on an open queue, a push never leaves the consumer
\* waiting on empty_cv_ while items_ holds an item; the woken pop that finds
\* the single item v returns v and leaves items_ empty; and every accepted
\* push is eventually matched by an item returned from pop
C11_PushWakesPop ==
  /\ [](qpc[Consumer] = "pop_wait" => items_ = <<>>)
  /\ [][\A v \in Items :
          qpc[Consumer] = "pop_woken" /\ items_ = <<v>> /\ ConsumerPop =>
            /\ last' = [op |-> "pop", val |-> v]
            /\ items_' = <<>>
            /\ qpc'[Consumer] = "idle"]_vars
  /\ \A c \in 1 .. MaxPushes :
       (BagCardinality(pushed) >= c) ~> (BagCardinality(returned) >= c)

C11_Witness ==
  /\ qpc[Consumer] = "pop_woken"
  /\ Len(items_) = 1
  /\ returned = EmptyBag
  /\ last.op = "push"
  /\ last.val = TRUE

\* C12: once draining_ or shutdown_ is set no thread is waiting on empty_cv_,
\* and every thread that is inside pop() then, however many there are,
\* eventually returns from it
C12_NoPopBlockedForever ==
  /\ [](draining_ \/ shutdown_ => \A t \in QThreads : qpc[t] # "pop_wait")
  /\ \A t \in QThreads :
       ((draining_ \/ shutdown_) /\ qpc[t] # "idle") ~> (qpc[t] = "idle")

C12_Witness ==
  /\ draining_
  /\ ~ shutdown_
  /\ items_ = <<>>
  /\ last.op = "drain"
  /\ Cardinality({t \in QThreads : qpc[t] = "pop_woken"}) >= 2

\* C13: drain() on a queue that is already draining, and shutdown() on a
\* queue that is already shut down, by whichever thread, leave items_, both
\* flags, every thread's position and the items delivered so far as they
\* were, so that no later call can tell the repeated call happened
C13_Idempotent ==
  [][/\ (draining_ /\ QDrain =>
            UNCHANGED <<items_, draining_, shutdown_, qpc, pushed, returned>>)
     /\ (shutdown_ /\ QShutdown =>
            UNCHANGED <<items_, draining_, shutdown_, qpc, pushed, returned>>)]_vars

C13_Witness ==
  /\ last.op = "drain"
  /\ draining_
  /\ ~ shutdown_
  /\ drained.set
  /\ returned # drained.returned
  /\ items_ # <<>>

\* ------------------------------------------------------------------------
\* Properties of the channel, continued
\* ------------------------------------------------------------------------
\* C14: a push applied in full_empty and a pull applied in full_empty both
\* leave the channel in empty_full, under the manual policy and under both
\* asynchronous policies
C14_HandoffFromFullEmpty ==
  [][/\ (Push /\ state_ = "full_empty" => state_' = "empty_full")
     /\ (Pull /\ state_ = "full_empty" => state_' = "empty_full")
     /\ (ManualStep /\ ManualSequence[applied + 1] \in {"push", "pull"}
           /\ state_ = "full_empty" => state_' = "empty_full")]_vars

C14_Witness ==
  /\ policy = "async"
  /\ state_ = "empty_full"
  /\ pc["sink"] = "drain"
  /\ sink_swaps >= 1
  /\ source_swaps >= 1

\* C15: a push applied in full_full and a pull applied in empty_empty change
\* neither the state nor the item slots and leave the caller waiting; while
\* the push is pending in full_full only the sink's sink_drain changes the
\* state (to full_empty), while the pull is pending in empty_empty only the
\* source's source_fill does (to full_empty), and items are swapped only in
\* full_empty
C15_PendingFrame ==
  [][/\ (Push /\ state_ = "full_full" =>
            /\ UNCHANGED <<state_, source_item, sink_item, source_swaps, sink_swaps>>
            /\ pc'["source"] = "push_wait")
     /\ (Pull /\ state_ = "empty_empty" =>
            /\ UNCHANGED <<state_, source_item, sink_item, source_swaps, sink_swaps>>
            /\ pc'["sink"] = "pull_wait")
     /\ (pc["source"] \in {"push_wait", "push_woken"} /\ state_ = "full_full"
           /\ state_' # state_ => SinkDrain /\ state_' = "full_empty")
     /\ (pc["sink"] \in {"pull_wait", "pull_woken"} /\ state_ = "empty_empty"
           /\ state_' # state_ => SourceFill /\ state_' = "full_empty")
     /\ (source_swaps' # source_swaps \/ sink_swaps' # sink_swaps =>
            state_ = "full_empty")]_vars

C15_Witness ==
  /\ pc["source"] = "push_wait"
  /\ state_ = "full_full"
  /\ pc["sink"] = "drain"
  /\ source_swaps + sink_swaps >= 1

\* C16: source_fill makes the source component full and leaves the sink
\* component as it was; sink_drain makes the sink component empty and leaves
\* the source component as it was; neither moves an item between the slots
\* or counts a swap; under the manual policy and both asynchronous policies
FillFrame ==
  /\ is_src_full(state_')
  /\ is_snk_full(state_') = is_snk_full(state_)
  /\ UNCHANGED <<source_item, sink_item, source_swaps, sink_swaps>>

DrainFrame ==
  /\ is_snk_empty(state_')
  /\ is_src_full(state_') = is_src_full(state_)
  /\ UNCHANGED <<source_item, sink_item, source_swaps, sink_swaps>>

C16_FillDrainFrame ==
  [][/\ (SourceFill => FillFrame)
     /\ (SinkDrain => DrainFrame)
     /\ (ManualStep /\ ManualSequence[applied + 1] = "source_fill" => FillFrame)
     /\ (ManualStep /\ ManualSequence[applied + 1] = "sink_drain" => DrainFrame)]_vars

C16_Witness ==
  /\ state_ = "full_full"
  /\ pc["source"] = "push"
  /\ source_item # sink_item
  /\ source_swaps + sink_swaps >= 1

\* C17: the single-threaded sequence source_fill, (push | pull), source_fill,
\* sink_drain, (push | pull), sink_drain, started in empty_empty, passes
\* through full_empty, empty_full, full_full, full_empty, empty_full and
\* ends in empty_empty, whichever of push and pull is used, with no event
\* applied in a state that does not allow it
RoundTripEvents ==
  <<{"source_fill"}, {"push", "pull"}, {"source_fill"},
    {"sink_drain"}, {"push", "pull"}, {"sink_drain"}>>

RoundTripStates ==
  <<"full_empty", "empty_full", "full_full", "full_empty", "empty_full", "empty_empty">>

C17_RoundTrip ==
  test = "manual" =>
    /\ \A e \in DOMAIN ManualSequence :
         ManualSequence[e] \in RoundTripEvents[((e - 1) % 6) + 1]
    /\ error = FALSE
    /\ state_ = IF applied = 0 THEN "empty_empty"
                 ELSE RoundTripStates[((applied - 1) % 6) + 1]

C17_Witness ==
  /\ test = "manual"
  /\ applied = Len(ManualSequence)
  /\ pc["main"] = "done"
  /\ state_ = "empty_empty"

\* C18: a push applied with the source slot already empty and a pull applied
\* with the sink slot already full return at once: the state, the slots,
\* the swap counters and the other thread's position are unchanged; and in
\* a run of one round the state is empty_full when pull has returned and
\* sink_drain has not yet been applied
C18_ImmediateReturn ==
  /\ [][/\ (Push /\ is_src_empty(state_) =>
                /\ UNCHANGED <<state_, source_item, sink_item, source_swaps, sink_swaps>>
                /\ pc'["source"] = AfterPush
                /\ pc'["sink"] = pc["sink"])
         /\ (Pull /\ is_snk_full(state_) =>
                /\ UNCHANGED <<state_, source_item, sink_item, source_swaps, sink_swaps>>
                /\ pc'["sink"] = "drain"
                /\ pc'["source"] = pc["source"])]_vars
  /\ [](rounds = 1 /\ pc["sink"] = "drain" => state_ = "empty_full")

C18_Witness ==
  /\ rounds = 1
  /\ test = "rounds"
  /\ policy = "async"
  /\ pc["source"] = "loop"
  /\ pc["sink"] = "drain"
  /\ sink_swaps = 1
  /\ source_swaps = 0
  /\ state_ = "empty_full"

\* C19: the unified and the two-condition-variable policy are
\* observationally equivalent: under either policy a push or pull that
\* reaches its swap hook changes the state, the slots, the swap counters and
\* the other thread's position exactly as the AsyncStateMachine hook does
\* (the swap by push counts in source_swaps, the swap by pull in sink_swaps,
\* a hook that waits changes nothing and wakes the other side)
OtherWoken(t) ==
  \A o \in Threads \ {t} :
    pc'[o] = IF pc[o] \in {"push_wait", "pull_wait"} THEN Woken(pc[o]) ELSE pc[o]

AsyncObservable_on_source_swap ==
  /\ OtherWoken("source")
  /\ IF state_ = "full_empty"
       THEN /\ source_item' = sink_item
            /\ sink_item' = source_item
            /\ state_' = "empty_full"
            /\ source_swaps' = source_swaps + 1
            /\ sink_swaps' = sink_swaps
            /\ pc'["source"] = AfterPush
       ELSE /\ UNCHANGED <<state_, source_item, sink_item, source_swaps, sink_swaps>>
            /\ pc'["source"] = "push_wait"

AsyncObservable_on_sink_swap ==
  /\ OtherWoken("sink")
  /\ IF state_ = "full_empty"
       THEN /\ source_item' = sink_item
            /\ sink_item' = source_item
            /\ state_' = "empty_full"
            /\ sink_swaps' = sink_swaps + 1
            /\ source_swaps' = source_swaps
            /\ pc'["sink"] = "drain"
       ELSE /\ UNCHANGED <<state_, source_item, sink_item, source_swaps, sink_swaps>>
            /\ pc'["sink"] = "pull_wait"

C19_PolicyEquivalence ==
  [][/\ (Push /\ is_src_full(state_) => AsyncObservable_on_source_swap)
     /\ (Pull /\ is_snk_empty(state_) => AsyncObservable_on_sink_swap)]_vars

\* C20: a push woken while the state is still full_full, and a pull woken
\* while the state is still empty_empty, change nothing and wait again; a
\* woken push returns only with the source slot empty and a woken pull only
\* with the sink slot full
C20_WokenRechecks ==
  [][/\ (pc["source"] = "push_woken" /\ Push /\ state_ = "full_full" =>
            /\ pc'["source"] = "push_wait"
            /\ UNCHANGED <<state_, source_item, sink_item, source_swaps, sink_swaps>>)
     /\ (pc["sink"] = "pull_woken" /\ Pull /\ state_ = "empty_empty" =>
            /\ pc'["sink"] = "pull_wait"
            /\ UNCHANGED <<state_, source_item, sink_item, source_swaps, sink_swaps>>)
     /\ (pc["source"] = "push_woken" /\ pc'["source"] = AfterPush =>
            is_src_empty(state_'))
     /\ (pc["sink"] = "pull_woken" /\ pc'["sink"] = "drain" =>
            is_snk_full(state_'))]_vars

C20_Witness ==
  /\ pc["source"] = "push_woken"
  /\ state_ = "full_full"
  /\ pc["sink"] = "drain"

\* C21: the channel is always in one of the four states; for every state
\* and every event whose precondition holds (source_fill: source slot empty,
\* sink_drain: sink slot full, push and pull: always) the table gives one
\* next state and it is one of the four; no event is applied outside its
\* precondition; and a channel to which no event has been applied is in
\* empty_empty
PortEvents == {"source_fill", "push", "pull", "sink_drain"}

Precondition(st, ev) ==
  CASE ev = "source_fill" -> is_src_empty(st)
    [] ev = "sink_drain" -> is_snk_full(st)
    [] OTHER -> TRUE

C21_FourStates ==
  /\ state_ \in PortStates
  /\ next_state_ \in PortStates
  /\ error = FALSE
  /\ \A st \in PortStates, ev \in PortEvents :
       Precondition(st, ev) => transition_table(st, ev) \in PortStates
  /\ (test = "manual" /\ applied = 0 => state_ = "empty_empty")
  /\ (test # "manual" /\ pc["source"] = "loop" /\ n["source"] = rounds =>
        state_ = "empty_empty")

C21_Witness ==
  /\ test = "manual"
  /\ applied = 10
  /\ state_ = "full_empty"

\* ------------------------------------------------------------------------
\* Properties of RandomizedQueue, continued
\* ------------------------------------------------------------------------
\* C22: every operation that reads or writes items_ or the flags holds
\* mutex_ while it does, size() and empty() included, so that no size() or
\* empty() reads items_ while another thread holds mutex_ inside push, pop
\* or drain
C22_AllUnderMutex ==
  [][QSize \/ QEmpty => mutex_ = NoThread]_vars

PushOutcome(t, item) ==
  /\ qpc[t] = "idle"
  /\ draining_' = draining_
  /\ shutdown_' = shutdown_
  /\ IF draining_ \/ shutdown_
       THEN /\ last'.val = FALSE
            /\ UNCHANGED <<items_, qpc, pushed>>
       ELSE /\ last'.val = TRUE
            /\ items_' = Append(items_, item)
            /\ qpc' \in empty_cv_notify_one(t)
            /\ pushed' = pushed (+) SetToBag({item})

C24_TryPushIsPush ==
  [][/\ (QTryPush => \E t \in QThreads, item \in Items : PushOutcome(t, item))
     /\ (QPush => \E t \in QThreads, item \in Items : PushOutcome(t, item))]_vars

C24_Witness ==
  /\ last = [op |-> "try_push", val |-> TRUE]
  /\ Len(items_) = 2
  /\ \E t \in QThreads : qpc[t] = "pop_woken"

\* ------------------------------------------------------------------------
\* Properties of the channel: swaps and counters
\* ------------------------------------------------------------------------
\* C25: a push applied in full_empty exchanges source_item and sink_item,
\* sets the state to empty_full, increases source_swaps by one and leaves
\* sink_swaps, wakes the sink if it is waiting, and returns without waiting,
\* under both asynchronous policies
C25_PushSwaps ==
  [][Push /\ state_ = "full_empty" =>
       /\ sink_item' = source_item
       /\ source_item' = sink_item
       /\ state_' = "empty_full"
       /\ source_swaps' = source_swaps + 1
       /\ sink_swaps' = sink_swaps
       /\ pc'["source"] = AfterPush
       /\ OtherWoken("source")]_vars

C25_Witness ==
  /\ test = "integers"
  /\ policy = "unified"
  /\ state_ = "empty_full"
  /\ pc["source"] = AfterPush
  /\ source_swaps = 1
  /\ sink_swaps = 0
  /\ sink_item = Input(1)
  /\ source_item = SlotInit

\* C26: a pull applied in full_empty exchanges source_item and sink_item,
\* sets the state to empty_full, increases sink_swaps by one and leaves
\* source_swaps, wakes the source if it is waiting, and returns without
\* waiting, under both asynchronous policies
C26_PullSwaps ==
  [][Pull /\ state_ = "full_empty" =>
       /\ sink_item' = source_item
       /\ source_item' = sink_item
       /\ state_' = "empty_full"
       /\ sink_swaps' = sink_swaps + 1
       /\ source_swaps' = source_swaps
       /\ pc'["sink"] = "drain"
       /\ OtherWoken("sink")]_vars

\* number of source_fill / sink_drain events applied so far: by the manual
\* sequence, or by the node loops (n counts the iterations not yet begun)
IsFill(e) == ManualSequence[e] = "source_fill"

IsDrain(e) == ManualSequence[e] = "sink_drain"

FillsApplied ==
  IF test = "manual"
    THEN Cardinality({e \in 1 .. applied : IsFill(e)})
    ELSE rounds - n["source"]
           - (IF pc["source"] \in {"spin", "spin2", "write", "fill"} THEN 1 ELSE 0)

DrainsApplied ==
  IF test = "manual"
    THEN Cardinality({e \in 1 .. applied : IsDrain(e)})
    ELSE rounds - n["sink"]
           - (IF pc["sink"] \in {"spin", "spin2", "pull", "pull_wait", "pull_woken", "drain"}
                THEN 1 ELSE 0)

\* C27: under either asynchronous policy source_swaps + sink_swaps is the
\* number of source_fill events applied, minus one while the source slot is
\* full: each item is swapped once, and none is handed off without a swap
C27_OneSwapPerItem ==
  test # "manual" =>
    source_swaps + sink_swaps =
      FillsApplied - (IF is_src_full(state_) THEN 1 ELSE 0)

C27_Witness ==
  /\ policy = "unified"
  /\ rounds = Rounds
  /\ FillsApplied = Rounds
  /\ is_src_full(state_)
  /\ source_swaps + sink_swaps = Rounds - 1

\* C28: the number of source_fill events applied minus the number of
\* sink_drain events applied is the number of full slots of the current
\* state, so it is never more than 2 and a source_fill is applied only with
\* the source slot empty
FullSlots(st) ==
  (IF is_src_full(st) THEN 1 ELSE 0) + (IF is_snk_full(st) THEN 1 ELSE 0)

C28_FillsMinusDrains ==
  /\ FillsApplied - DrainsApplied = FullSlots(state_)
  /\ error = FALSE

C28_Witness ==
  /\ test = "rounds"
  /\ state_ = "full_full"
  /\ FillsApplied = 2
  /\ DrainsApplied = 0
  /\ pc["source"] = "push_wait"

\* ------------------------------------------------------------------------
\* Properties of the channel: waiting and notification
\* ------------------------------------------------------------------------
\* C29: a push that finds full_full notifies the sink side and then waits,
\* a pull that finds empty_empty notifies the source side and then waits;
\* the wait of the source ends only by the sink's sink_drain (or a spurious
\* wake-up), the wait of the sink only by the source's source_fill (or a
\* spurious wake-up), and the pending push / pull returns only when the
\* state is no longer full_full / empty_empty
C29_NotifyThenWait ==
  [][/\ (Push /\ state_ = "full_full" =>
            OtherWoken("source") /\ pc'["source"] = "push_wait")
     /\ (Pull /\ state_ = "empty_empty" =>
            OtherWoken("sink") /\ pc'["sink"] = "pull_wait")
     /\ (pc["source"] = "push_wait" /\ pc'["source"] # "push_wait" =>
            pc'["source"] = "push_woken" /\ (SinkDrain \/ SpuriousWakeup))
     /\ (pc["sink"] = "pull_wait" /\ pc'["sink"] # "pull_wait" =>
            pc'["sink"] = "pull_woken" /\ (SourceFill \/ SpuriousWakeup))
     /\ (pc["source"] = "push_woken" /\ pc'["source"] = AfterPush =>
            state_ # "full_full")
     /\ (pc["sink"] = "pull_woken" /\ pc'["sink"] = "drain" =>
            state_ # "empty_empty")]_vars

C29_Witness ==
  /\ pc["sink"] = "pull_wait"
  /\ state_ = "empty_empty"
  /\ pc["source"] = "fill"
  /\ source_swaps + sink_swaps >= 1

\* C30: source_fill and sink_drain never wait: whenever a node is about to
\* apply one it can take the step whatever the other node is doing, and the
\* step changes the state, wakes the other side if it is waiting and leaves
\* the caller at the statement after the event
C30_FillDrainNeverWait ==
  /\ [](pc["source"] = "fill" => ENABLED SourceFill)
  /\ [](pc["sink"] = "drain" => ENABLED SinkDrain)
  /\ [][/\ (SourceFill =>
                /\ pc'["source"] = "push"
                /\ is_src_full(state_')
                /\ OtherWoken("source"))
         /\ (SinkDrain =>
                /\ pc'["sink"] = AfterDrain
                /\ is_snk_empty(state_')
                /\ OtherWoken("sink"))]_vars

C30_Witness ==
  /\ pc["source"] = "push"
  /\ pc["sink"] = "pull_woken"
  /\ state_ = "full_empty"
  /\ source_swaps + sink_swaps >= 1

\* ------------------------------------------------------------------------
\* Properties of the channel: the item slots
\* ------------------------------------------------------------------------
\* a step of push or pull that exchanges the two slots
Swapped ==
  /\ Push \/ Pull
  /\ source_swaps' + sink_swaps' = source_swaps + sink_swaps + 1

\* the values the nodes of the n-integer tests write as placeholders
Placeholders == {SlotInit, SourceMark, SinkMark}

\* C31: push and pull exchange the two slots only in full_empty: a push or
\* pull applied in any other state leaves both slots as they were, so no
\* swap writes to the sink slot while it holds an item that has not been
\* drained, and in the n-integer tests the value a swap moves into the sink
\* slot is the input value the source wrote before its source_fill, never a
\* placeholder
C31_SwapOnlyInFullEmpty ==
  [][/\ (Swapped => state_ = "full_empty")
     /\ (Push \/ Pull =>
           IF state_ = "full_empty"
             THEN sink_item' = source_item /\ source_item' = sink_item
             ELSE UNCHANGED <<source_item, sink_item>>)
     /\ ((Push \/ Pull) /\ is_snk_full(state_) => sink_item' = sink_item)
     /\ (Swapped /\ test = "integers" =>
           /\ sink_item' = Input(i - 1)
           /\ sink_item' \notin Placeholders)]_vars

C31_Witness ==
  /\ test = "integers"
  /\ state_ = "empty_full"
  /\ source_swaps + sink_swaps = 2
  /\ sink_item = Input(2)
  /\ source_item = SinkMark

\* the consumer has returned from a sink_drain and has not yet applied the
\* pull of its next round
DrainedNotPulled ==
  /\ test # "manual"
  /\ DrainsApplied >= 1
  /\ pc["sink"] \in {"read", "mark", "loop", "spin", "spin2", "pull"}

\* C32: between the return of the consumer's sink_drain and its next pull no
\* step of the producer changes sink_item, so the consumer's read of
\* sink_item after sink_drain gives the item that was just drained and its
\* placeholder write never falls on a sink slot that holds a new item
C32_SinkItemStableAfterDrain ==
  [][/\ (DrainedNotPulled /\ SourceStep => sink_item' = sink_item)
     /\ (SinkRead => sink_item = Input(Len(output) + 1))
     /\ (SinkMarkItem => is_snk_empty(state_))]_vars

\* C33: the n-integer tests as written (the source waits for an empty source
\* slot before source_fill, the sink waits for an empty sink slot before
\* pull) terminate: when both node threads are scheduled fairly, both
\* complete all their rounds, whatever the interleaving
C33_IntegersTerminate == (test = "integers") ~> BothDone

\* ------------------------------------------------------------------------
\* Properties of RandomizedQueue: flags, wake-ups, order
\* ------------------------------------------------------------------------
\* the queue accepts no more items
Closed == draining_ \/ shutdown_

\* C34: draining_ and shutdown_ are monotone: no operation clears a flag
\* that is set; a push or try_push is rejected only on a closed queue, and
\* on a closed queue every later push and try_push is rejected and leaves
\* items_ alone, so the queue never reopens
C34_FlagsMonotone ==
  /\ [](last.op \in {"push", "try_push"} /\ last.val = FALSE => Closed)
  /\ [][/\ (draining_ => draining_')
        /\ (shutdown_ => shutdown_')
        /\ (Closed /\ (QPush \/ QTryPush) =>
              /\ last'.val = FALSE
              /\ items_' = items_
              /\ pushed' = pushed)]_vars

C34_Witness ==
  /\ draining_
  /\ shutdown_
  /\ last = [op |-> "try_push", val |-> FALSE]
  /\ qpc = [t \in QThreads |-> "idle"]
  /\ items_ # <<>>
  /\ returned # EmptyBag

\* threads blocked in empty_cv_.wait, and threads woken that have not yet
\* gone on with pop()
PopWaiting == {t \in QThreads : qpc[t] = "pop_wait"}

PopWoken == {t \in QThreads : qpc[t] = "pop_woken"}

\* C35: no wake-up is lost with several consumers on an open queue: while a
\* thread is still blocked in pop(), every queued item has a woken thread on
\* its way to take it, so a thread stays blocked only when no item is left
\* for it, also when other threads take items with pop() or try_pop() in
\* between; the items returned are items that were pushed, none of them
\* twice; and when woken threads are scheduled fairly the queue ends up
\* empty or with no thread inside pop()
C35_NoLostWakeup ==
  /\ [](~ Closed /\ PopWaiting # {} => Cardinality(PopWoken) >= Len(items_))
  /\ [](~ Closed /\ PopWaiting # {} /\ PopWoken = {} => items_ = <<>>)
  /\ [](returned (+) BagOf(items_) = pushed)
  /\ <>[](Closed \/ items_ = <<>> \/ \A t \in QThreads : qpc[t] = "idle")

C35_Witness ==
  /\ ~ Closed
  /\ Cardinality(PopWoken) = 2
  /\ Len(items_) = 2
  /\ last = [op |-> "push", val |-> TRUE]
  /\ returned = EmptyBag

\* a pop() / try_pop() step that returns the item at position j of items_
\* and leaves the other items queued
TakesAt(j) ==
  /\ last'.val = items_[j]
  /\ BagOf(items_') (+) SetToBag({items_[j]}) = BagOf(items_)
  /\ Len(items_') = Len(items_) - 1

\* C36: pop() and try_pop() impose no order: with two or more items queued
\* a call that returns an item can return the item at any position of
\* items_, the first and the last included, and whichever item a call
\* returns, the other items and only they remain queued.  (That the choices
\* are equally likely is a property of std::shuffle, outside this model.)
C36_AnyItemPossible ==
  /\ [](Len(items_) >= 2 =>
          \A j \in DOMAIN items_ :
            /\ (~ shutdown_ => ENABLED (QPop /\ TakesAt(j)))
            /\ (~ Closed => ENABLED (QTryPop /\ TakesAt(j))))
  /\ [][(QPop \/ QTryPop) /\ items_' # items_ =>
          /\ last'.val # NoItem
          /\ BagOf(items_') (+) SetToBag({last'.val}) = BagOf(items_)
          /\ Len(items_') = Len(items_) - 1]_vars

C36_Witness ==
  /\ last = [op |-> "try_pop", val |-> 1]
  /\ items_ = <<2>>
  /\ BagCardinality(returned) = 1
  /\ BagCardinality(pushed) = 2
  /\ ~ Closed

\* C37: a.swap_data(b) exchanges the data of the two queues: when it returns
\* a holds the items b held and b holds the items a held when the exchange
\* began, no item of either queue is lost or duplicated, and no push or pop
\* on either queue runs while the exchange is under way
C37_SwapDataAtomic ==
  /\ [](returned (+) BagOf(items_) (+) BagOf(rhs_items_) (+) BagOf(swap_tmp) = pushed)
  /\ [][SwapDataMoveBack =>
          /\ items_' = swap_seen.b
          /\ rhs_items_' = swap_seen.a]_vars
  /\ [][RhsPush \/ RhsTryPop \/ ThisPush \/ ThisTryPop =>
          \A t \in QThreads : qpc[t] \notin {"swap_moved_out", "swap_moved_in"}]_vars

====
